---- MODULE Spec2Model ----
(***************************************************************************)
(* another-day: a command-line work log.  `task` and `break` append one    *)
(* line to the text file of the current day, `show` reads the files of a   *)
(* resolved range of days and prints one row per task with its rounded     *)
(* duration.                                                               *)
(*                                                                         *)
(* Text is modelled as sequences of one-character strings, so that         *)
(* joining, splitting, formatting and parsing are computed as the code     *)
(* computes them.  Instants are whole seconds since 1970-01-01T00:00:00Z   *)
(* (the entries are stored to the second).                                 *)
(***************************************************************************)
EXTENDS Integers, Sequences, FiniteSets, TLC

\* ---------------------------------------------------------------- bounds
\* Number of lines `task` and `break` append in a behaviour.
MaxWrites == 2

\* ------------------------------------------------------------ characters
Digits == <<"0", "1", "2", "3", "4", "5", "6", "7", "8", "9">>

IsDigit(c) == \E i \in 1..10 : Digits[i] = c

DigitVal(c) == (CHOOSE i \in 1..10 : Digits[i] = c) - 1

\* os.EOL of the host (a single line terminator token).
EOL == "\n"

\* The field separator of a line.
Sep == "|"

\* JavaScript's `undefined`, as a value no text is equal to.
Undefined == <<"undefined">>

\* String(v) as Array.prototype.join and `+` apply it to a field.
UndefinedText == <<"u", "n", "d", "e", "f", "i", "n", "e", "d">>

Str(v) == IF v = Undefined THEN UndefinedText ELSE v

RECURSIVE NumStr(_)
\* Decimal digits of a natural number (Number.prototype.toString).
NumStr(n) == IF n < 10 THEN <<Digits[n + 1]>>
             ELSE NumStr(n \div 10) \o <<Digits[(n % 10) + 1]>>

RECURSIVE ZeroPad(_, _)
\* A natural number in at least w digits, zero padded (moment's YYYY, MM, HH ...).
ZeroPad(n, w) == IF w <= 1 THEN NumStr(n)
                 ELSE IF Len(NumStr(n)) >= w THEN NumStr(n)
                 ELSE <<"0">> \o ZeroPad(n, w - 1)

RECURSIVE DigitsVal(_)
\* Value of a sequence of digit characters.
DigitsVal(s) == IF s = <<>> THEN 0
                ELSE DigitsVal(SubSeq(s, 1, Len(s) - 1)) * 10 + DigitVal(s[Len(s)])

AllDigits(s) == \A i \in 1..Len(s) : IsDigit(s[i])

\* -------------------------------------------------------- split and join
RECURSIVE Split(_, _)
\* String.prototype.split(sep) for a one-token separator: "" gives [""].
Split(s, sep) ==
    IF \A i \in 1..Len(s) : s[i] # sep THEN <<s>>
    ELSE LET i == CHOOSE k \in 1..Len(s) :
                      s[k] = sep /\ \A j \in 1..(k - 1) : s[j] # sep
         IN <<SubSeq(s, 1, i - 1)>> \o Split(SubSeq(s, i + 1, Len(s)), sep)

RECURSIVE Join(_, _)
\* Array.prototype.join(sep): an undefined element is written as the empty string.
Join(fields, sep) ==
    IF fields = <<>> THEN <<>>
    ELSE LET head == IF fields[1] = Undefined THEN <<>> ELSE fields[1]
         IN IF Len(fields) = 1 THEN head
            ELSE head \o <<sep>> \o Join(Tail(fields), sep)

\* Array destructuring: a missing element is undefined.
Field(fields, i) == IF i <= Len(fields) THEN fields[i] ELSE Undefined

\* ---------------------------------------------------------------- numbers
\* A JavaScript number that may be NaN: <<n>> is the number n, <<>> is NaN.
NaN == <<>>

Num(n) == <<n>>

IsNum(x) == x # NaN

Val(x) == x[1]

Abs(n) == IF n < 0 THEN -n ELSE n

\* Division truncated toward zero (moment's absFloor).
TruncDiv(a, b) == IF a >= 0 THEN a \div b ELSE -((-a) \div b)

\* --------------------------------------------------------------- calendar
SecondsPerDay == 86400

\* Days since 1970-01-01 of the proleptic Gregorian date y-m-d.
DaysFromCivil(y, m, d) ==
    LET yy  == IF m <= 2 THEN y - 1 ELSE y
        era == yy \div 400
        yoe == yy - era * 400
        mp  == IF m > 2 THEN m - 3 ELSE m + 9
        doy == (153 * mp + 2) \div 5 + d - 1
        doe == yoe * 365 + yoe \div 4 - yoe \div 100 + doy
    IN era * 146097 + doe - 719468

\* The date <<y, m, d>> of a day number.
CivilFromDays(z) ==
    LET zz  == z + 719468
        era == zz \div 146097
        doe == zz - era * 146097
        yoe == (doe - doe \div 1460 + doe \div 36524 - doe \div 146096) \div 365
        doy == doe - (365 * yoe + yoe \div 4 - yoe \div 100)
        mp  == (5 * doy + 2) \div 153
        d   == doy - (153 * mp + 2) \div 5 + 1
        m   == IF mp < 10 THEN mp + 3 ELSE mp - 9
        y   == yoe + era * 400 + (IF m <= 2 THEN 1 ELSE 0)
    IN <<y, m, d>>

\* Day of the week of a day number, 0 = Sunday.
DayOfWeek(z) == (z + 4) % 7

DaysInMonth(y, m) ==
    IF m = 12 THEN 31
    ELSE DaysFromCivil(y, m + 1, 1) - DaysFromCivil(y, m, 1)

\* ------------------------------------------------------------- state
VARIABLES
    now,        \* the wall clock: seconds since 1970-01-01T00:00:00Z
    hostZone,   \* the time zone of the host, which moment() displays in
    files,      \* day file name (without ".txt") -> its text
    writes,     \* number of lines appended by task / break so far
    last,       \* the invocation that has just run: its arguments and output
    entered     \* history: for each chunk appended, in order, the file, the
                \* line of the file it starts at and the instant of its `time`

vars == <<now, hostZone, files, writes, last, entered>>

\* ----------------------------------------------------------------- zones
\* Day number of the last Sunday of a 31-day month.
LastSunday(y, m) ==
    LET d == DaysFromCivil(y, m, 31) IN d - DayOfWeek(d)

\* UTC offset, in seconds, of Europe/Stockholm at instant t: CEST from the last
\* Sunday of March 01:00Z to the last Sunday of October 01:00Z, CET otherwise.
StockholmOffset(t) ==
    LET y == CivilFromDays(t \div SecondsPerDay)[1]
    IN IF /\ t >= LastSunday(y, 3) * SecondsPerDay + 3600
          /\ t < LastSunday(y, 10) * SecondsPerDay + 3600
       THEN 7200 ELSE 3600

ZoneOffset(zone, t) == IF zone = "UTC" THEN 0 ELSE StockholmOffset(t)

\* --------------------------------------------------------------- moments
\* A moment: an instant and the offset it is displayed with; valid is FALSE for
\* an invalid date.
InvalidMoment == [valid |-> FALSE, utc |-> 0, off |-> 0]

At(t, o) == [valid |-> TRUE, utc |-> t, off |-> o]

\* moment(): now, displayed in the zone of the host.
MomentNow == At(now, ZoneOffset(hostZone, now))

\* moment().utc(): now, displayed in UTC.
MomentNowUtc == At(now, 0)

\* moment.tz(timezone): now, displayed in the configured zone.
MomentNowTz == At(now, StockholmOffset(now))

\* The wall-clock reading of a moment, in seconds.
Wall(m) == m.utc + m.off

InvalidDateText == <<"I", "n", "v", "a", "l", "i", "d", " ", "d", "a", "t", "e">>

\* m.format('YYYY-MM-DD')
FormatDate(m) ==
    IF ~m.valid THEN InvalidDateText
    ELSE LET c == CivilFromDays(Wall(m) \div SecondsPerDay)
         IN ZeroPad(c[1], 4) \o <<"-">> \o ZeroPad(c[2], 2) \o <<"-">> \o ZeroPad(c[3], 2)

\* m.format('HH:mm:ss')
FormatTime(m) ==
    IF ~m.valid THEN InvalidDateText
    ELSE LET s == Wall(m) % SecondsPerDay
         IN ZeroPad(s \div 3600, 2) \o <<":">> \o ZeroPad((s % 3600) \div 60, 2)
              \o <<":">> \o ZeroPad(s % 60, 2)

\* The pattern ^[0-9]{4}-[0-9]{2}-[0-9]{2}$ tested on a text.
MatchesDateFormat(s) ==
    /\ Len(s) = 10
    /\ s[5] = "-" /\ s[8] = "-"
    /\ \A i \in {1, 2, 3, 4, 6, 7, 9, 10} : IsDigit(s[i])

\* Day number of a YYYY-MM-DD text, NaN when it names no calendar day.
ParseIsoDate(s) ==
    IF ~MatchesDateFormat(s) THEN NaN
    ELSE LET y == DigitsVal(SubSeq(s, 1, 4))
             m == DigitsVal(SubSeq(s, 6, 7))
             d == DigitsVal(SubSeq(s, 9, 10))
         IN IF m \in 1..12 /\ d >= 1 /\ d <= DaysInMonth(y, m)
            THEN Num(DaysFromCivil(y, m, d)) ELSE NaN

\* Seconds of the day of an ISO time HH, HH:mm or HH:mm:ss, NaN for anything
\* else (moment's fall back to the Date constructor gives an invalid date for the
\* texts of this model; the compact and fractional ISO forms do not occur in it).
ParseIsoTime(s) ==
    LET two(i) == IF Len(s) >= i + 1 /\ IsDigit(s[i]) /\ IsDigit(s[i + 1])
                  THEN Num(DigitsVal(SubSeq(s, i, i + 1))) ELSE NaN
        shape == \/ Len(s) = 2
                 \/ Len(s) = 5 /\ s[3] = ":"
                 \/ Len(s) = 8 /\ s[3] = ":" /\ s[6] = ":"
        hh == two(1)
        mm == IF Len(s) >= 5 THEN two(4) ELSE Num(0)
        ss == IF Len(s) >= 8 THEN two(7) ELSE Num(0)
    IN IF s = Undefined \/ ~shape THEN NaN
       ELSE IF ~(IsNum(hh) /\ IsNum(mm) /\ IsNum(ss)) THEN NaN
       ELSE IF Val(mm) > 59 \/ Val(ss) > 59 THEN NaN
       ELSE IF Val(hh) > 24 \/ (Val(hh) = 24 /\ Val(mm) + Val(ss) > 0) THEN NaN
       ELSE Num(Val(hh) * 3600 + Val(mm) * 60 + Val(ss))

\* moment.utc(text) for a YYYY-MM-DD text.
MomentUtcDate(s) ==
    LET d == ParseIsoDate(s)
    IN IF IsNum(d) THEN At(Val(d) * SecondsPerDay, 0) ELSE InvalidMoment

\* moment.utc(day + ' ' + time): the day and the time read as one UTC instant.
MomentUtcDayTime(day, time) ==
    LET d == ParseIsoDate(day)
        t == ParseIsoTime(time)
    IN IF IsNum(d) /\ IsNum(t) THEN At(Val(d) * SecondsPerDay + Val(t), 0)
       ELSE InvalidMoment

\* moment.tz(text, 'HH:mm:ss', timezone): the time of day is read on the current
\* UTC date, and the result is taken as a wall-clock reading of the zone.
MomentTzTime(text) ==
    LET t == ParseIsoTime(text)
        w == (now \div SecondsPerDay) * SecondsPerDay + Val(t)
        o == StockholmOffset(w)
    IN IF IsNum(t) THEN At(w - o, o) ELSE InvalidMoment

\* a.diff(b, 'days'): whole days from b to a, truncated toward zero.
DiffDays(a, b) == TruncDiv(a.utc - b.utc, SecondsPerDay)

\* m.clone().add(n, 'days')
AddDays(m, n) == At(m.utc + n * SecondsPerDay, m.off)

\* ------------------------------------------------------------ date ranges
\* moment.range(start, end).by('days'): start, start + 1 day, ... as many steps
\* as there are whole days between the two ends, whichever comes first.
RangeByDays(start, end) ==
    IF ~(start.valid /\ end.valid) THEN <<>>
    ELSE LET diff == Abs(DiffDays(start, end))
         IN [i \in 1..(diff + 1) |-> AddDays(start, i - 1)]

\* moment.locale('sv'): weeks start on Monday.
FirstDayOfWeek == 1

\* m.startOf('week') and m.startOf('month'), in m's own zone.
StartOfWeek(m) ==
    LET day == Wall(m) \div SecondsPerDay
        weekday == (DayOfWeek(day) + 7 - FirstDayOfWeek) % 7
    IN At((day - weekday) * SecondsPerDay - m.off, m.off)

StartOfMonth(m) ==
    LET c == CivilFromDays(Wall(m) \div SecondsPerDay)
    IN At(DaysFromCivil(c[1], c[2], 1) * SecondsPerDay - m.off, m.off)

Yesterday == <<"y", "e", "s", "t", "e", "r", "d", "a", "y">>
Week == <<"w", "e", "e", "k">>
Month == <<"m", "o", "n", "t", "h">>

\* dateResolvers[dateFormat]
ResolveDates(first, second) ==
    LET start == MomentUtcDate(first)
        end == IF MatchesDateFormat(Str(second)) THEN MomentUtcDate(second) ELSE start
    IN <<start, end>>

\* dateResolvers['^yesterday$']
ResolveYesterday ==
    LET start == AddDays(MomentNow, -1) IN <<start, start>>

\* dateResolvers['^week$']
ResolveWeek == <<StartOfWeek(MomentNow), MomentNow>>

\* dateResolvers['^month$']
ResolveMonth == <<StartOfMonth(MomentNow), MomentNow>>

\* resolveDays(startArg, endArg): the day keys of the range of the first resolver
\* whose pattern matches startArg, of today in UTC when none does.
resolveDays(startArg, endArg) ==
    LET range == IF MatchesDateFormat(Str(startArg)) THEN ResolveDates(startArg, endArg)
                 ELSE IF Str(startArg) = Yesterday THEN ResolveYesterday
                 ELSE IF Str(startArg) = Week THEN ResolveWeek
                 ELSE IF Str(startArg) = Month THEN ResolveMonth
                 ELSE <<MomentNowUtc, MomentNowUtc>>
        byDays == RangeByDays(range[1], range[2])
    IN [i \in 1..Len(byDays) |-> FormatDate(byDays[i])]

\* ---------------------------------------------------------- the day files
TaskWord == <<"t", "a", "s", "k">>
BreakWord == <<"b", "r", "e", "a", "k">>

NoFiles == [f \in {} |-> <<>>]

\* A write with the flag 'w': the chunk replaces the file.
WriteOver(fs, filename, chunk) ==
    [f \in DOMAIN fs \cup {filename} |-> IF f = filename THEN chunk ELSE fs[f]]

\* fs.appendFile(fullPath, chunk, { flag: 'a' }): the chunk goes to the end of
\* the file, which is created when it does not exist.
AppendFile(fs, filename, chunk) ==
    [f \in DOMAIN fs \cup {filename} |->
        IF f = filename
        THEN (IF filename \in DOMAIN fs THEN fs[filename] ELSE <<>>) \o chunk
        ELSE fs[f]]

\* A chunk whose time is formatted without the conversion to UTC.
TaskChunkLocalTime(time, projectArg, taskArg, id) ==
    Join(<<TaskWord, FormatTime(time), projectArg, taskArg, id>>, Sep) \o <<EOL>>

\* The line a `task` invocation writes for the moment `time`.
TaskChunk(time, projectArg, taskArg, id) ==
    Join(<<TaskWord, FormatTime(At(time.utc, 0)), projectArg, taskArg, id>>, Sep)
        \o <<EOL>>

\* The line a `break` invocation writes for the moment `time`.
BreakChunk(time) ==
    Join(<<BreakWord, FormatTime(At(time.utc, 0))>>, Sep) \o <<EOL>>

\* cmd.time ? moment.tz(cmd.time, 'HH:mm:ss', timezone) : moment.tz(timezone)
EntryTime(timeOpt) ==
    IF timeOpt # Undefined THEN MomentTzTime(timeOpt) ELSE MomentNowTz

\* ------------------------------------------------------------------ show
\* One printed line of `show`: the table header, a day heading, or a task row.
\* line, minutes and est are not printed: they record the line of the file the
\* row was made from, its duration in minutes (NaN when not a number) and
\* whether its end was the clock.
HeaderLine ==
    [kind |-> "header", day |-> <<>>, label |-> <<>>, project |-> <<>>,
     id |-> <<>>, task |-> <<>>, line |-> 0, minutes |-> NaN, est |-> FALSE]

DayLine(day) == [HeaderLine EXCEPT !.kind = "day", !.day = day]

\* JavaScript truthiness of a text or undefined.
Truthy(v) == v # Undefined /\ v # <<>>

\* endTime.diff(startTime), in seconds; NaN when either moment is invalid.
DiffSeconds(endTime, startTime) ==
    IF endTime.valid /\ startTime.valid THEN Num(endTime.utc - startTime.utc)
    ELSE NaN

\* Math.floor in the place of Math.round.
RoundHalfHoursFloor(secs) == secs \div 1800

\* Math.round(hours * 2): the nearest whole number of half hours, halves up.
RoundHalfHours(secs) == (secs + 900) \div 1800

\* Math.max(Math.round(duration.as('hours') * 2) / 2, 0.5), in minutes.
Adjusted(duration) ==
    IF ~IsNum(duration) THEN NaN
    ELSE LET halves == RoundHalfHours(Val(duration))
         IN Num(30 * (IF halves > 1 THEN halves ELSE 1))

\* adjusted + 'h'
HoursText(adjusted) ==
    IF ~IsNum(adjusted) THEN <<"N", "a", "N", "h">>
    ELSE NumStr(Val(adjusted) \div 60)
           \o (IF Val(adjusted) % 60 = 0 THEN <<>> ELSE <<".", "5">>) \o <<"h">>

\* A peek that returns the element just taken instead of the one after it.
PeekTaken(elements, index) == elements[index]

\* Iterator.peek(): the element at the cursor, undefined past the end.
Peek(elements, index) ==
    IF index < Len(elements) THEN elements[index + 1] ELSE Undefined

\* moment.utc(day + ' ' + time) for the time field of a line of the file of
\* `day`: the instant `show` takes the entry to have been made at.
StartTime(day, entry) == MomentUtcDayTime(day, Field(Split(entry, Sep), 2))

\* The row of one line of a day file whose kind is not `break`; `index` is the
\* cursor of the iterator after the line was taken.
EntryRow(day, elements, index) ==
    LET entry == elements[index]
        fields == Split(entry, Sep)
        startTime == StartTime(day, entry)
        nextEntry == Peek(elements, index)
        endTime == IF Truthy(nextEntry) THEN StartTime(day, nextEntry)
                   ELSE MomentNowUtc
        adjusted == Adjusted(DiffSeconds(endTime, startTime))
        timestamp == (IF ~Truthy(nextEntry) THEN <<"~">> ELSE <<>>) \o HoursText(adjusted)
    IN [kind |-> "row", day |-> day, label |-> timestamp,
        project |-> Field(fields, 3), id |-> Field(fields, 5),
        task |-> Str(Field(fields, 4)), line |-> index,
        minutes |-> adjusted, est |-> ~Truthy(nextEntry)]

\* pad(text, length) calls text.toString(): it throws on undefined.
PadThrows(row) == row.project = Undefined \/ row.id = Undefined

RECURSIVE EntryLoop(_, _, _)
\* for (const entry of entries) { ... }: the rows printed for a day, from the
\* cursor on.  An exception ends the loop: the rows printed so far stay.
EntryLoop(day, elements, index) ==
    IF ~(index < Len(elements)) THEN <<>>
    ELSE LET entry == elements[index + 1]
             type == Field(Split(entry, Sep), 1)
         IN IF ~Truthy(entry) THEN EntryLoop(day, elements, index + 1)
            ELSE IF type = BreakWord THEN EntryLoop(day, elements, index + 1)
            ELSE LET row == EntryRow(day, elements, index + 1)
                 IN IF PadThrows(row) THEN <<>>
                    ELSE <<row>> \o EntryLoop(day, elements, index + 1)

\* An iteration that starts after the first line.
DayRowsFromSecond(day, data) == EntryLoop(day, Split(data, EOL), 1)

\* The rows of a day whose file was read.
DayRows(day, data) == EntryLoop(day, Split(data, EOL), 0)

RECURSIVE ShowDaysUntilError(_, _, _)
\* A day loop whose try / catch is around the loop: the first day that cannot be
\* read ends it.
ShowDaysUntilError(days, i, fs) ==
    IF i > Len(days) THEN <<>>
    ELSE IF days[i] \notin DOMAIN fs THEN <<DayLine(days[i])>>
    ELSE <<DayLine(days[i])>> \o DayRows(days[i], fs[days[i]])
            \o ShowDaysUntilError(days, i + 1, fs)

RECURSIVE ShowDays(_, _, _)
\* for (const day of days) { try { ... } catch (err) { continue; } }: the
\* heading of each day, then its rows when its file could be read.
ShowDays(days, i, fs) ==
    IF i > Len(days) THEN <<>>
    ELSE LET day == days[i]
             rows == IF day \in DOMAIN fs THEN DayRows(day, fs[day]) ELSE <<>>
         IN <<DayLine(day)>> \o rows \o ShowDays(days, i + 1, fs)

\* ------------------------------------------------------------ invocations
\* The invocation that has just run: the command, whether it succeeded, for a
\* successful write the file, the chunk and the arguments, and for `show` the
\* arguments, the resolved days and the lines printed.
Idle ==
    [cmd |-> "none", ok |-> FALSE, file |-> <<>>, chunk |-> <<>>,
     args |-> <<>>, days |-> <<>>, out |-> <<>>]

EightOClock == <<"0", "8", ":", "0", "0", ":", "0", "0">>
OneToMidnight == <<"2", "3", ":", "5", "9", ":", "0", "0">>
TrueText == <<"t", "r", "u", "e">>
D15 == <<"2", "0", "1", "8", "-", "0", "6", "-", "1", "5">>
D16 == <<"2", "0", "1", "8", "-", "0", "6", "-", "1", "6">>
D17 == <<"2", "0", "1", "8", "-", "0", "6", "-", "1", "7">>
NoSuchDay == <<"2", "0", "1", "8", "-", "0", "2", "-", "3", "0">>
InvalidWord == <<"i", "n", "v", "a", "l", "i", "d">>

\* The arguments of `task` tried: <<project, task, cmd.id, cmd.time>>.  The last
\* two hold a line terminator; the last one also holds separators, and leaves
\* an empty line and a line of an unknown kind in the file.
TaskInputs ==
    { << <<"p">>, <<"a">>, Undefined, Undefined >>,
      << <<"q">>, <<"b">>, TrueText, EightOClock >>,
      << <<"p">>, <<"a", EOL, "b">>, Undefined, Undefined >>,
      << <<"a", Sep, "b", Sep, "c", EOL, EOL, "x", Sep, "1", "0", ":", "0", "0", ":",
           "0", "0", Sep, "p">>, <<"l">>, Undefined, Undefined >> }

\* The cmd.time of `break` tried.
BreakInputs == {Undefined, OneToMidnight}

\* The arguments of `show` tried: <<start, end>>.
ShowInputs == { <<Undefined, Undefined>>, <<D15, D17>> }

\* The arguments resolveDays is tried on: <<start, end>>.
ResolveInputs ==
    { <<Undefined, Undefined>>, <<Yesterday, Undefined>>, <<Week, D15>>,
      <<Month, Undefined>>, <<InvalidWord, D17>>, <<<<>>, D17>>, <<D15, D17>>,
      <<D15, Undefined>>, <<D17, D15>>, <<D15, InvalidWord>>, <<D16, D16>>,
      <<NoSuchDay, D17>> }

\* The instant y-m-d h:mi:00 UTC.
Instant(y, m, d, h, mi) == DaysFromCivil(y, m, d) * SecondsPerDay + h * 3600 + mi * 60

\* The readings of the clock at which commands are run, in order: Friday
\* 2018-06-15 21:13Z, 17 minutes later, 46 minutes later (past midnight in
\* Stockholm, before midnight UTC), 134 minutes later (past midnight UTC), and
\* a day after the third.
Clock ==
    << Instant(2018, 6, 15, 21, 13), Instant(2018, 6, 15, 21, 30),
       Instant(2018, 6, 15, 22, 16), Instant(2018, 6, 16, 0, 30),
       Instant(2018, 6, 16, 22, 16) >>

\* The readings of the clock resolveDays is tried at: those of Clock, a Monday
\* and a first of the month in Stockholm that are still Sunday and the last of
\* the month in UTC, a Sunday noon, and a winter day.
ResolveInstants ==
    { Clock[i] : i \in 1..Len(Clock) }
        \cup { Instant(2018, 6, 17, 22, 30), Instant(2018, 6, 30, 23, 10),
               Instant(2018, 6, 24, 12, 0), Instant(2018, 12, 31, 23, 30),
               Instant(2019, 1, 2, 9, 0) }

HostZones == {"UTC", "Europe/Stockholm"}

Init ==
    /\ now = Clock[1]
    /\ hostZone = "Europe/Stockholm"
    /\ files = NoFiles
    /\ writes = 0
    /\ last = Idle
    /\ entered = <<>>

\* What the history keeps of a chunk appended to the file `filename` for the
\* moment `time`: the line it starts at is the one after the lines already there.
Entered(fs, filename, time) ==
    [file |-> filename,
     line |-> IF filename \in DOMAIN fs THEN Len(Split(fs[filename], EOL)) ELSE 1,
     utc |-> time.utc]

\* writeFile(path, filename, chunk): the chunk is appended to the file unless
\* checkDirectory or fs.appendFile fails; a failure leaves the files as they
\* were, and the handler swallows it.
WriteFile(cmd, args, time, filename, chunk, ok) ==
    /\ writes < MaxWrites
    /\ writes' = IF ok THEN writes + 1 ELSE writes
    /\ files' = IF ok THEN AppendFile(files, filename, chunk) ELSE files
    /\ last' = IF ok THEN [Idle EXCEPT !.cmd = cmd, !.ok = TRUE, !.file = filename,
                                        !.chunk = chunk, !.args = args]
                ELSE [Idle EXCEPT !.cmd = cmd]
    /\ entered' = IF ok THEN Append(entered, Entered(files, filename, time))
                   ELSE entered
    /\ UNCHANGED <<now, hostZone>>

\* The `task` command.
Task ==
    \E in \in TaskInputs, ok \in BOOLEAN :
        LET time == EntryTime(in[4])
            filename == FormatDate(time)
            chunk == TaskChunk(time, in[1], in[2], in[3])
        IN WriteFile("task", in, time, filename, chunk, ok)

\* The `break` command.
Break ==
    \E timeOpt \in BreakInputs, ok \in BOOLEAN :
        LET time == EntryTime(timeOpt)
            filename == FormatDate(time)
            chunk == BreakChunk(time)
        IN WriteFile("break", <<timeOpt>>, time, filename, chunk, ok)

\* The lines `show` prints: the table header, then every resolved day in turn.
\* A day whose file cannot be read (readFile rejects: the file is missing)
\* prints its heading only.
ShowOutput(days, fs) == <<HeaderLine>> \o ShowDays(days, 1, fs)

\* The `show` command.
Show ==
    \E in \in ShowInputs :
        LET days == resolveDays(in[1], in[2])
        IN /\ last' = [Idle EXCEPT !.cmd = "show", !.ok = TRUE, !.args = in,
                                   !.days = days, !.out = ShowOutput(days, files)]
           /\ UNCHANGED <<now, hostZone, files, writes, entered>>

\* Time passes between invocations: the clock moves to its next reading.
Tick ==
    \E i \in 1..(Len(Clock) - 1) :
        /\ now = Clock[i]
        /\ now' = Clock[i + 1]
        /\ last' = Idle
        /\ UNCHANGED <<hostZone, files, writes, entered>>

Next == Task \/ Break \/ Show \/ Tick

Spec == Init /\ [][Next]_vars

\* --------------------------------------------- resolveDays on its own
\* The `test` command's use of resolveDays, at any of the sample instants and
\* on a host in either zone.
InitResolve ==
    /\ now \in ResolveInstants
    /\ hostZone \in HostZones
    /\ files = NoFiles
    /\ writes = 0
    /\ last = Idle
    /\ entered = <<>>

Resolve ==
    \E in \in ResolveInputs :
        /\ last' = [Idle EXCEPT !.cmd = "resolve", !.ok = TRUE, !.args = in,
                                !.days = resolveDays(in[1], in[2])]
        /\ UNCHANGED <<now, hostZone, files, writes, entered>>

NextResolve == Resolve

SpecResolve == InitResolve /\ [][NextResolve]_vars

\* ------------------------------------------------ the entries of a file
\* The lines of a day file as `show` splits it.
Lines(day) == Split(files[day], EOL)

\* A Task entry: kind|time|project|label|id with the kind `task` and a time.
IsTaskLine(l) ==
    LET f == Split(l, Sep)
    IN Len(f) = 5 /\ f[1] = TaskWord /\ IsNum(ParseIsoTime(f[2]))

\* A Break entry: kind|time with the kind `break` and a time.
IsBreakLine(l) ==
    LET f == Split(l, Sep)
    IN Len(f) = 2 /\ f[1] = BreakWord /\ IsNum(ParseIsoTime(f[2]))

IsEntryLine(l) == IsTaskLine(l) \/ IsBreakLine(l)

\* The recorded time of an entry, in seconds of its day.
LineTime(l) == Val(ParseIsoTime(Split(l, Sep)[2]))

\* The positions of the task rows in the output of the `show` that has just run.
Rows == {i \in 1..Len(last.out) : last.out[i].kind = "row"}

\* The whole number of half hours nearest to a number of seconds (the upper one
\* when two are equally near), and max(round(2h)/2, 0.5) in minutes.
NearestHalfHours(secs) ==
    CHOOSE k \in (secs \div 1800)..(secs \div 1800 + 1) :
        secs - 1800 * k >= -900 /\ secs - 1800 * k < 900

ExpectedMinutes(secs) ==
    LET k == NearestHalfHours(secs) IN IF k >= 1 THEN 30 * k ELSE 30

\* C1: in `show`, the displayed duration of a Task entry that is followed by
\* another entry is max(round(2h)/2, 0.5) hours, h the hours from its own recorded
\* time to the recorded time of the next entry on the same day; every displayed
\* duration of a Task entry is a multiple of half an hour and at least half an
\* hour, also when the next entry is at the same second or earlier.
C1_Duration ==
    last.cmd = "show" =>
        \A i \in Rows :
            LET r == last.out[i]
                lines == Lines(r.day)
                l == lines[r.line]
                closed == r.line < Len(lines) /\ IsEntryLine(lines[r.line + 1])
                open == r.line = Len(lines) \/ lines[r.line + 1] = <<>>
            IN IsTaskLine(l) =>
                 /\ closed => r.minutes =
                        Num(ExpectedMinutes(LineTime(lines[r.line + 1]) - LineTime(l)))
                 /\ (closed \/ open) =>
                        /\ IsNum(r.minutes)
                        /\ Val(r.minutes) % 30 = 0
                        /\ Val(r.minutes) >= 30

\* A Task entry followed 46 minutes later by another entry is shown with 1.0 h.
C1_Witness ==
    /\ last.cmd = "show"
    /\ \E i \in Rows :
          LET r == last.out[i]
              lines == Lines(r.day)
          IN /\ IsTaskLine(lines[r.line])
             /\ r.line < Len(lines) /\ IsEntryLine(lines[r.line + 1])
             /\ LineTime(lines[r.line + 1]) - LineTime(lines[r.line]) = 46 * 60
             /\ r.minutes = Num(60)

\* Every line of the file but the empty one after the last terminator is an entry.
WellFormedFile(day) ==
    LET lines == Lines(day)
    IN /\ lines[Len(lines)] = <<>>
       /\ \A k \in 1..(Len(lines) - 1) : IsEntryLine(lines[k])

\* The rows printed for a day, in the order printed.
RECURSIVE RowsOf(_, _)
RowsOf(out, day) ==
    IF out = <<>> THEN <<>>
    ELSE (IF out[1].kind = "row" /\ out[1].day = day THEN <<out[1]>> ELSE <<>>)
            \o RowsOf(Tail(out), day)

\* The Task entries of a day file, in file order, as <<line number, fields>>.
RECURSIVE TaskLinesFrom(_, _)
TaskLinesFrom(lines, k) ==
    IF k > Len(lines) THEN <<>>
    ELSE (IF IsTaskLine(lines[k]) THEN << <<k, Split(lines[k], Sep)>> >> ELSE <<>>)
            \o TaskLinesFrom(lines, k + 1)

\* C2: for a day's sequence of entries, `show` prints exactly one row per Task
\* entry and none for a Break entry, in the order of the Task entries in the
\* file, each with the project, label and id of its entry.
C2_RowsAreTasks ==
    last.cmd = "show" =>
        /\ \A i \in Rows :
              LET r == last.out[i]
              IN Split(Lines(r.day)[r.line], Sep)[1] # BreakWord
        /\ \A n \in 1..Len(last.days) :
              LET day == last.days[n]
                  rows == RowsOf(last.out, day)
                  tasks == TaskLinesFrom(Lines(day), 1)
              IN (day \in DOMAIN files /\ WellFormedFile(day)) =>
                   /\ Len(rows) = Len(tasks)
                   /\ \A k \in 1..Len(rows) :
                         /\ rows[k].line = tasks[k][1]
                         /\ rows[k].project = tasks[k][2][3]
                         /\ rows[k].task = tasks[k][2][4]
                         /\ rows[k].id = tasks[k][2][5]

\* A file holding a Task entry and then a Break entry is shown as one row, the
\* task's, closed by the break.
C2_Witness ==
    /\ last.cmd = "show"
    /\ \E n \in 1..Len(last.days) :
          LET day == last.days[n]
          IN /\ day \in DOMAIN files /\ WellFormedFile(day)
             /\ Len(Lines(day)) = 3
             /\ IsTaskLine(Lines(day)[1]) /\ IsBreakLine(Lines(day)[2])
             /\ Len(RowsOf(last.out, day)) = 1
             /\ ~RowsOf(last.out, day)[1].est

\* No entry follows line k of a file: every later line is empty.
IsLastEntry(lines, k) == \A j \in (k + 1)..Len(lines) : lines[j] = <<>>

\* C3: for a Task entry that is the last entry of a day's file, the end used for
\* its duration is the clock when the clock is within that day, and 23:59:59 of
\* that day when the day is past.
C3_EndOfLastEntry ==
    last.cmd = "show" =>
        \A i \in Rows :
            LET r == last.out[i]
                lines == Lines(r.day)
                l == lines[r.line]
                dayStart == Val(ParseIsoDate(r.day)) * SecondsPerDay
                dayEnd == dayStart + SecondsPerDay - 1
                start == dayStart + LineTime(l)
            IN (IsTaskLine(l) /\ IsLastEntry(lines, r.line)) =>
                 /\ (dayStart <= now /\ now <= dayEnd) =>
                        r.minutes = Num(ExpectedMinutes(now - start))
                 /\ now > dayEnd =>
                        r.minutes = Num(ExpectedMinutes(dayEnd - start))

\* The minutes a label of the form N h or N.5 h stands for, -1 for another text.
LabelMinutes(text) ==
    LET n == Len(text)
        half == n >= 4 /\ text[n - 2] = "." /\ text[n - 1] = "5"
        whole == IF half THEN SubSeq(text, 1, n - 3) ELSE SubSeq(text, 1, n - 1)
    IN IF n >= 2 /\ text[n] = "h" /\ whole # <<>> /\ AllDigits(whole)
       THEN DigitsVal(whole) * 60 + (IF half THEN 30 ELSE 0)
       ELSE -1

\* C4: the label of a row is the rounded duration followed by h; it has the ~
\* prefix when its Task entry is the last entry of the file and has none when
\* another entry follows it, so that in a file of entries the prefix marks the
\* last entry and nothing else.
C4_EstimateMark ==
    last.cmd = "show" =>
        \A i \in Rows :
            LET r == last.out[i]
                lines == Lines(r.day)
                l == lines[r.line]
                closed == r.line < Len(lines) /\ IsEntryLine(lines[r.line + 1])
                marked == Len(r.label) > 0 /\ r.label[1] = "~"
            IN IsTaskLine(l) =>
                 /\ closed =>
                        ~marked /\ LabelMinutes(r.label) = Val(r.minutes)
                 /\ IsLastEntry(lines, r.line) =>
                        marked /\ LabelMinutes(Tail(r.label)) = Val(r.minutes)
                 /\ WellFormedFile(r.day) =>
                        (marked <=> r.line = Len(lines) - 1)

\* A file of two Task entries is shown as a row without the prefix and then a
\* row with it.
C4_Witness ==
    /\ last.cmd = "show"
    /\ \E i \in Rows :
          LET a == last.out[i]
              lines == Lines(a.day)
          IN /\ i + 1 \in Rows
             /\ WellFormedFile(a.day) /\ Len(lines) = 3
             /\ IsTaskLine(lines[1]) /\ IsTaskLine(lines[2])
             /\ a.line = 1 /\ a.label[1] # "~"
             /\ last.out[i + 1].line = 2 /\ last.out[i + 1].label[1] = "~"

\* The day key of a day number.
DateText(d) == FormatDate(At(d * SecondsPerDay, 0))

\* The day keys of the days from a to b, in ascending order.
DayKeys(a, b) == [i \in 1..(b - a + 1) |-> DateText(a + i - 1)]

\* C5: resolveDays(start, end) with start an explicit date gives every day from
\* start to end inclusive, in ascending order, when end is an explicit date not
\* earlier than start, and exactly [start] when end is absent, not an explicit
\* date, or earlier than start.
C5_ExplicitRange ==
    (last.cmd = "resolve" /\ IsNum(ParseIsoDate(Str(last.args[1])))) =>
        LET s == Val(ParseIsoDate(last.args[1]))
            e == ParseIsoDate(Str(last.args[2]))
        IN IF IsNum(e) /\ Val(e) >= s THEN last.days = DayKeys(s, Val(e))
           ELSE last.days = <<last.args[1]>>

\* The part of C5 the code keeps: an end that is no earlier than the start, or
\* that is no explicit date.
C5_ForwardRange ==
    (last.cmd = "resolve" /\ IsNum(ParseIsoDate(Str(last.args[1])))) =>
        LET s == Val(ParseIsoDate(last.args[1]))
            e == ParseIsoDate(Str(last.args[2]))
        IN /\ (IsNum(e) /\ Val(e) >= s) => last.days = DayKeys(s, Val(e))
           /\ ~MatchesDateFormat(Str(last.args[2])) => last.days = <<last.args[1]>>

\* The day number of today in Europe/Stockholm: the day under which a `task` or
\* `break` run now files its entry.
TodayInZone == Val(ParseIsoDate(FormatDate(EntryTime(Undefined))))

\* C6: resolveDays with a start token that is no explicit date depends only on
\* now in Europe/Stockholm: yesterday is the day before today, week the days
\* from Monday through today, month the days from the first of the month through
\* today, anything else today; today is the day a `task` run now files under.
C6_KeywordRange ==
    (last.cmd = "resolve" /\ ~MatchesDateFormat(Str(last.args[1]))) =>
        LET today == TodayInZone
            token == Str(last.args[1])
            monday == today - ((DayOfWeek(today) + 6) % 7)
            c == CivilFromDays(today)
            first == DaysFromCivil(c[1], c[2], 1)
        IN last.days = IF token = Yesterday THEN DayKeys(today - 1, today - 1)
                       ELSE IF token = Week THEN DayKeys(monday, today)
                       ELSE IF token = Month THEN DayKeys(first, today)
                       ELSE DayKeys(today, today)

\* C7: in `show`, a line that is empty, of an unknown kind or of the wrong number
\* of fields produces no row and the other lines are still processed: the rows
\* of a file are exactly the rows of its well-formed Task lines.
C7_MalformedSkipped ==
    last.cmd = "show" =>
        \A n \in 1..Len(last.days) :
            LET day == last.days[n]
                rows == RowsOf(last.out, day)
                tasks == TaskLinesFrom(Lines(day), 1)
            IN day \in DOMAIN files =>
                 /\ Len(rows) = Len(tasks)
                 /\ \A k \in 1..Len(rows) : rows[k].line = tasks[k][1]

\* The positions of the day headings in an output, in order.
RECURSIVE HeadingsFrom(_, _)
HeadingsFrom(out, i) ==
    IF i > Len(out) THEN <<>>
    ELSE (IF out[i].kind = "day" THEN <<i>> ELSE <<>>) \o HeadingsFrom(out, i + 1)

\* C8: `show` attempts every day of the resolved range exactly once, in
\* ascending date order; a day whose file is missing prints no rows and stops
\* nothing: the rows of every later day are still printed, after its heading.
C8_EveryDayAttempted ==
    last.cmd = "show" =>
        LET out == last.out
            days == last.days
            at == HeadingsFrom(out, 1)
            block(n) == SubSeq(out, at[n] + 1,
                               IF n < Len(at) THEN at[n + 1] - 1 ELSE Len(out))
        IN /\ Len(at) = Len(days)
           /\ \A n \in 1..Len(days) :
                 /\ out[at[n]].day = days[n]
                 /\ n > 1 => Val(ParseIsoDate(days[n - 1])) < Val(ParseIsoDate(days[n]))
                 /\ block(n) = IF days[n] \in DOMAIN files
                               THEN DayRows(days[n], files[days[n]]) ELSE <<>>

\* A range of three days whose middle file is missing: rows of the first day,
\* then rows of the third.
C8_Witness ==
    /\ last.cmd = "show"
    /\ last.days = <<D15, D16, D17>>
    /\ D16 \notin DOMAIN files
    /\ RowsOf(last.out, D15) # <<>>
    /\ RowsOf(last.out, D17) # <<>>
    /\ \E i, j \in Rows : i < j /\ last.out[i].day = D15 /\ last.out[j].day = D17

\* A text holds the token c.
Holds(text, c) == text # Undefined /\ \E i \in 1..Len(text) : text[i] = c

\* The line a successful `task` has just written, as `show` splits it: the last
\* line of the file before the empty one that follows the final terminator.
WrittenFields ==
    LET lines == Lines(last.file) IN Split(lines[Len(lines) - 1], Sep)

\* What the fields of the Task entry just written are to be read back as.
EntryFields ==
    LET in == last.args
    IN <<TaskWord, Num(EntryTime(in[4]).utc % SecondsPerDay), in[1], in[2],
         IF in[3] = Undefined THEN <<>> ELSE in[3]>>

ReadsBack ==
    /\ Len(WrittenFields) = 5
    /\ WrittenFields[1] = EntryFields[1]
    /\ ParseIsoTime(WrittenFields[2]) = EntryFields[2]
    /\ WrittenFields[3] = EntryFields[3]
    /\ WrittenFields[4] = EntryFields[4]
    /\ WrittenFields[5] = EntryFields[5]

\* C9: round trip: for every Task entry whose project, label and id hold no `|`,
\* the line `task` writes, split by `show`, gives the kind task, the same time to
\* the second, and the same project, label and id, each in its own field.
C9_RoundTrip ==
    (/\ last.cmd = "task" /\ last.ok
     /\ \A k \in 1..3 : ~Holds(last.args[k], Sep)) => ReadsBack

\* C9 as amended: the same for entries whose project, label and id hold neither
\* `|` nor a line terminator.
C9_RoundTripOneLine ==
    (/\ last.cmd = "task" /\ last.ok
     /\ \A k \in 1..3 : ~Holds(last.args[k], Sep) /\ ~Holds(last.args[k], EOL))
        => ReadsBack

\* A task written with --time and --id, read back field by field.
C9_Witness ==
    /\ last.cmd = "task" /\ last.ok
    /\ last.args[3] = TrueText /\ last.args[4] = EightOClock
    /\ \A k \in 1..3 : ~Holds(last.args[k], Sep) /\ ~Holds(last.args[k], EOL)
    /\ WrittenFields[5] = TrueText
    /\ ParseIsoTime(WrittenFields[2]) = Num(6 * 3600)

\* The number of line terminators in a text.
RECURSIVE Terminators(_)
Terminators(text) ==
    IF text = <<>> THEN 0
    ELSE (IF text[1] = EOL THEN 1 ELSE 0) + Terminators(Tail(text))

\* The step leaves every file of before in place, its text a prefix of the text
\* of after, and changes exactly the file f, by adding `added` at its end.
AppendsTo(before, after, f, added) ==
    /\ DOMAIN after = DOMAIN before \cup {f}
    /\ \A g \in DOMAIN before : g # f => after[g] = before[g]
    /\ after[f] = (IF f \in DOMAIN before THEN before[f] ELSE <<>>) \o added

\* C10: each day file only ever grows by appending: a successful `task` or
\* `break` adds exactly one line at the end of exactly one day file and leaves
\* every earlier line of every file in place; a failed write and every `show`
\* leave all day files unchanged.
C10_OneLineAppended ==
    [][ IF last'.cmd \in {"task", "break"} /\ last'.ok
        THEN \E f \in DOMAIN files' : \E n \in 1..Len(files'[f]) :
                LET added == SubSeq(files'[f], Len(files'[f]) - n + 1, Len(files'[f]))
                IN /\ AppendsTo(files, files', f, added)
                   /\ Terminators(added) = 1 /\ added[n] = EOL
        ELSE files' = files ]_vars

\* C10 as amended: a successful `task` or `break` adds its chunk, which ends in
\* a line terminator and is one line when no argument holds a line terminator,
\* at the end of exactly one file; the rest is as in C10.
C10_AppendOnly ==
    [][ IF last'.cmd \in {"task", "break"} /\ last'.ok
        THEN LET added == last'.chunk
                 n == Len(added)
             IN /\ AppendsTo(files, files', last'.file, added)
                /\ n > 0 /\ added[n] = EOL
                /\ (\A k \in 1..Len(last'.args) : ~Holds(last'.args[k], EOL))
                      => Terminators(added) = 1
        ELSE files' = files ]_vars

\* A successful write that went to the end of a file that held a line already.
C10_Witness ==
    /\ last.cmd \in {"task", "break"} /\ last.ok
    /\ Len(files[last.file]) > Len(last.chunk)
    /\ Terminators(files[last.file]) = 2
    /\ Cardinality(DOMAIN files) = 1

\* ------------------------------------------- the instant of an entry
\* The moment `show` reconstructs for the k-th chunk appended: the day key of
\* its file and the time of the line it starts at, read as one UTC instant.
Shown(k) == StartTime(entered[k].file, Lines(entered[k].file)[entered[k].line])

\* The day number of the k-th chunk's instant in UTC, and of its day key.
UtcDay(k) == entered[k].utc \div SecondsPerDay

KeyDay(k) == Val(ParseIsoDate(entered[k].file))

\* The chunks j before k that went to the same file at an instant no later.
InOrder(j, k) ==
    /\ j < k
    /\ entered[j].file = entered[k].file
    /\ entered[j].utc <= entered[k].utc

\* The day key and the stored time of every entry denote the instant of the
\* entry when read as `<day> <time>` in UTC.
SameInstant ==
    \A k \in 1..Len(entered) : Shown(k) = At(entered[k].utc, 0)

\* Two entries appended to one file in chronological order are reconstructed
\* in that order, the real elapsed time apart.
ElapsedTime ==
    \A j, k \in 1..Len(entered) :
        InOrder(j, k) =>
            /\ Shown(j).valid /\ Shown(k).valid
            /\ Shown(j).utc <= Shown(k).utc
            /\ Shown(k).utc - Shown(j).utc = entered[k].utc - entered[j].utc

\* C11: the day key of the file an entry is written to and the UTC time stored
\* in its line denote the instant of the entry when `show` recombines them as
\* `<day> <time>` in UTC; so for any two entries appended to one day file in
\* chronological order, at now or with --time, the reconstructed start times are
\* in that order and differ by the real elapsed time, also for entries made
\* after local midnight in Europe/Stockholm and before midnight UTC.
C11_DayKeyDenotesInstant == SameInstant /\ ElapsedTime

\* What the code does instead: the reconstructed instant is the instant of the
\* entry moved by as many days as its day key is from its UTC date, so it is the
\* instant itself exactly when the two dates agree.
C11_ShiftedByDateGap ==
    \A k \in 1..Len(entered) :
        /\ Shown(k).valid
        /\ Shown(k).utc = entered[k].utc + (KeyDay(k) - UtcDay(k)) * SecondsPerDay

\* An entry made after midnight in Stockholm and before midnight UTC, followed
\* in its file by an entry made later, after midnight UTC: the first is
\* reconstructed a day late, and so after the second.
C11_Witness ==
    \E j, k \in 1..Len(entered) :
        /\ InOrder(j, k)
        /\ entered[j].utc < entered[k].utc
        /\ KeyDay(j) = UtcDay(j) + 1
        /\ KeyDay(k) = UtcDay(k)
        /\ Shown(j).utc = entered[j].utc + SecondsPerDay
        /\ Shown(j).utc > Shown(k).utc

====
